---- MODULE Spec2Model ----
(***************************************************************************)
(* Model of SearchManager (src/providers/google_chat/utils/                *)
(* search_manager.py): mode dispatch, exact (substring) search with        *)
(* contraction alternatives, regular-expression search with its fallback,  *)
(* and the hybrid score combiner.                                          *)
(*                                                                         *)
(* Text is a sequence of one-character strings.  Three characters outside  *)
(* ASCII are written as tokens: "RSQ" is U+2019 (right single quotation    *)
(* mark), "LSQ" is U+2018 (left single quotation mark) and "FWD" is U+FF44 *)
(* (fullwidth latin small letter d, whose NFKD form is "d").               *)
(* Scores are exact rationals [n, d]; the float rounding of the Python     *)
(* arithmetic is not modelled.                                             *)
(***************************************************************************)
EXTENDS Integers, Sequences, FiniteSets, TLC

VARIABLES
  config,        \* self.config, the loaded configuration document
  search_modes,  \* self.search_modes, the enabled entries by name
  messages,      \* the caller's message list
  op,            \* the entry point the caller last called, "none" when idle
  query,         \* the query of that call
  mode,          \* the mode argument of that call
  outcome,       \* what that call returned or raised
  prev           \* what the same call returned the time before, when repeated

vars == <<config, search_modes, messages, op, query, mode, outcome, prev>>

----------------------------------------------------------------------------
(* Python built-ins used by the code: dict.get, str methods, list.sort.    *)

\* d.get(key, default) on a dict modelled as a function
Get(d, key, default) == IF key \in DOMAIN d THEN d[key] ELSE default

UpperChars == <<"A", "B", "C", "D", "E", "F", "G", "H", "I", "J", "K", "L", "M",
                "N", "O", "P", "Q", "R", "S", "T", "U", "V", "W", "X", "Y", "Z">>

LowerChars == <<"a", "b", "c", "d", "e", "f", "g", "h", "i", "j", "k", "l", "m",
                "n", "o", "p", "q", "r", "s", "t", "u", "v", "w", "x", "y", "z">>

UpperSet == {UpperChars[i] : i \in 1..26}

LowerOf == [c \in UpperSet |-> LowerChars[CHOOSE i \in 1..26 : UpperChars[i] = c]]

LowerChar(c) == IF c \in UpperSet THEN LowerOf[c] ELSE c

\* str.lower()
Lower(s) == [i \in 1..Len(s) |-> LowerChar(s[i])]

\* unicodedata.normalize('NFKD', s), one character at a time
NFKDChar(c) == IF c = "FWD" THEN <<"d">> ELSE <<c>>

RECURSIVE NFKD(_)
NFKD(s) == IF s = <<>> THEN <<>> ELSE NFKDChar(Head(s)) \o NFKD(Tail(s))

\* .replace('’', "'").replace('‘', "'")
FoldQuotes(s) == [i \in 1..Len(s) |-> IF s[i] \in {"RSQ", "LSQ"} THEN "'" ELSE s[i]]

\* the normalisation both searches apply to the query and to every text
Normalize(s) == FoldQuotes(NFKD(s))

\* t occurs in s starting at the 1-based position i
OccursAt(s, t, i) ==
  /\ i >= 1
  /\ i + Len(t) - 1 <= Len(s)
  /\ \A k \in 1..Len(t) : s[i + k - 1] = t[k]

\* t in s
Contains(s, t) == \E i \in 1..(Len(s) + 1) : OccursAt(s, t, i)

\* s.find(t), 0-based, for t in s
Find(s, t) == (CHOOSE i \in 1..(Len(s) + 1) :
                 /\ OccursAt(s, t, i)
                 /\ \A j \in 1..(i - 1) : ~OccursAt(s, t, j)) - 1

\* s.count(t): non-overlapping occurrences, len(s) + 1 for the empty t
RECURSIVE CountFrom(_, _, _)
CountFrom(s, t, i) ==
  IF i + Len(t) - 1 > Len(s) THEN 0
  ELSE IF OccursAt(s, t, i) THEN 1 + CountFrom(s, t, i + Len(t))
  ELSE CountFrom(s, t, i + 1)

Count(s, t) == IF t = <<>> THEN Len(s) + 1 ELSE CountFrom(s, t, 1)

\* s.replace(old, new) for a non-empty old: every occurrence, left to right
RECURSIVE ReplaceFrom(_, _, _, _)
ReplaceFrom(s, old, new, i) ==
  IF i > Len(s) THEN <<>>
  ELSE IF OccursAt(s, old, i) THEN new \o ReplaceFrom(s, old, new, i + Len(old))
  ELSE <<s[i]>> \o ReplaceFrom(s, old, new, i + 1)

Replace(s, old, new) == ReplaceFrom(s, old, new, 1)

Whitespace == {" ", "\n"}

\* str.strip()
RECURSIVE LStrip(_)
LStrip(s) == IF s # <<>> /\ Head(s) \in Whitespace THEN LStrip(Tail(s)) ELSE s

RECURSIVE RStrip(_)
RStrip(s) ==
  IF s # <<>> /\ s[Len(s)] \in Whitespace THEN RStrip(SubSeq(s, 1, Len(s) - 1)) ELSE s

Strip(s) == RStrip(LStrip(s))

\* x in lst
InSeq(x, lst) == \E i \in DOMAIN lst : lst[i] = x

----------------------------------------------------------------------------
(* Score arithmetic: rationals in lowest terms with a positive denominator *)

RECURSIVE GCD(_, _)
GCD(a, b) == IF b = 0 THEN a ELSE GCD(b, a % b)

Abs(a) == IF a < 0 THEN -a ELSE a

Reduce(n, d, g) == [n |-> n \div g, d |-> d \div g]

Rat(n, d) == Reduce(n, d, GCD(Abs(n), d))

Zero == Rat(0, 1)

LCM(a, b) == (a \div GCD(a, b)) * b

\* the numerator of x over the denominator l
Over(x, l) == x.n * (l \div x.d)

AddOver(x, y, l) == Rat(Over(x, l) + Over(y, l), l)

RAdd(x, y) == AddOver(x, y, LCM(x.d, y.d))

MulCancelled(x, y, g1, g2) ==
  [n |-> (x.n \div g1) * (y.n \div g2), d |-> (x.d \div g2) * (y.d \div g1)]

RMul(x, y) == MulCancelled(x, y, GCD(Abs(x.n), y.d), GCD(Abs(y.n), x.d))

GeqOver(x, y, l) == Over(x, l) >= Over(y, l)

\* x >= y
RGeq(x, y) == GeqOver(x, y, LCM(x.d, y.d))

RGt(x, y) == RGeq(x, y) /\ x # y

\* results.sort(key=lambda x: x[0], reverse=True): stable, descending by score
\* a variant of the sort that is not stable: a result goes before the
\* results of equal score already placed
RECURSIVE InsertDescBeforeTies(_, _)
InsertDescBeforeTies(sorted, r) ==
  IF sorted = <<>> THEN <<r>>
  ELSE IF RGt(Head(sorted).score, r.score)
       THEN <<Head(sorted)>> \o InsertDescBeforeTies(Tail(sorted), r)
       ELSE <<r>> \o sorted

RECURSIVE InsertDesc(_, _)
InsertDesc(sorted, r) ==
  IF sorted = <<>> THEN <<r>>
  ELSE IF RGeq(Head(sorted).score, r.score)
       THEN <<Head(sorted)>> \o InsertDesc(Tail(sorted), r)
       ELSE <<r>> \o sorted

RECURSIVE SortFrom(_, _, _)
SortFrom(results, i, acc) ==
  IF i > Len(results) THEN acc
  ELSE SortFrom(results, i + 1, InsertDesc(acc, results[i]))

\* a variant that leaves the list in scan order
Unsorted(results) == results

SortDesc(results) == SortFrom(results, 1, <<>>)

----------------------------------------------------------------------------
(* _exact_search                                                           *)

contraction_pairs ==
  <<
     [key |-> <<"d", "o", "n", "'", "t">>,
      variants |-> <<<<"d", "i", "d", "n", "'", "t">>,
                     <<"d", "o", " ", "n", "o", "t">>,
                     <<"d", "i", "d", " ", "n", "o", "t">>>>],
     [key |-> <<"d", "i", "d", "n", "'", "t">>,
      variants |-> <<<<"d", "o", "n", "'", "t">>,
                     <<"d", "i", "d", " ", "n", "o", "t">>,
                     <<"d", "o", " ", "n", "o", "t">>>>],
     [key |-> <<"i", "s", "n", "'", "t">>,
      variants |-> <<<<"w", "a", "s", "n", "'", "t">>,
                     <<"i", "s", " ", "n", "o", "t">>,
                     <<"w", "a", "s", " ", "n", "o", "t">>>>],
     [key |-> <<"w", "a", "s", "n", "'", "t">>,
      variants |-> <<<<"i", "s", "n", "'", "t">>,
                     <<"w", "a", "s", " ", "n", "o", "t">>,
                     <<"i", "s", " ", "n", "o", "t">>>>],
     [key |-> <<"c", "a", "n", "'", "t">>,
      variants |-> <<<<"c", "o", "u", "l", "d", "n", "'", "t">>,
                     <<"c", "a", "n", "n", "o", "t">>,
                     <<"c", "o", "u", "l", "d", " ", "n", "o", "t">>>>],
     [key |-> <<"c", "o", "u", "l", "d", "n", "'", "t">>,
      variants |-> <<<<"c", "a", "n", "'", "t">>,
                     <<"c", "o", "u", "l", "d", " ", "n", "o", "t">>,
                     <<"c", "a", "n", "n", "o", "t">>>>],
     [key |-> <<"w", "o", "n", "'", "t">>,
      variants |-> <<<<"w", "o", "u", "l", "d", "n", "'", "t">>,
                     <<"w", "i", "l", "l", " ", "n", "o", "t">>,
                     <<"w", "o", "u", "l", "d", " ", "n", "o", "t">>>>],
     [key |-> <<"w", "o", "u", "l", "d", "n", "'", "t">>,
      variants |-> <<<<"w", "o", "n", "'", "t">>,
                     <<"w", "o", "u", "l", "d", " ", "n", "o", "t">>,
                     <<"w", "i", "l", "l", " ", "n", "o", "t">>>>],
     [key |-> <<"a", "r", "e", "n", "'", "t">>,
      variants |-> <<<<"w", "e", "r", "e", "n", "'", "t">>,
                     <<"a", "r", "e", " ", "n", "o", "t">>,
                     <<"w", "e", "r", "e", " ", "n", "o", "t">>>>],
     [key |-> <<"w", "e", "r", "e", "n", "'", "t">>,
      variants |-> <<<<"a", "r", "e", "n", "'", "t">>,
                     <<"w", "e", "r", "e", " ", "n", "o", "t">>,
                     <<"a", "r", "e", " ", "n", "o", "t">>>>],
     [key |-> <<"h", "a", "v", "e", "n", "'", "t">>,
      variants |-> <<<<"h", "a", "d", "n", "'", "t">>,
                     <<"h", "a", "v", "e", " ", "n", "o", "t">>,
                     <<"h", "a", "d", " ", "n", "o", "t">>>>],
     [key |-> <<"h", "a", "d", "n", "'", "t">>,
      variants |-> <<<<"h", "a", "v", "e", "n", "'", "t">>,
                     <<"h", "a", "d", " ", "n", "o", "t">>,
                     <<"h", "a", "v", "e", " ", "n", "o", "t">>>>]
  >>

\* a variant that takes no form for an expanded one, so that
\* expanded_to_contraction stays empty
NoExpandedForm(variant) == FALSE

\* " " in variant
IsExpanded(variant) == InSeq(" ", variant)

KeyIndex(table, key) ==
  IF \E i \in DOMAIN table : table[i].key = key
  THEN CHOOSE i \in DOMAIN table : table[i].key = key
  ELSE 0

\* one step of the two loops: "if variant not in expanded_to_contraction"
\* creates the entry, then the contraction is appended to it
RECURSIVE ExpandedFrom(_, _, _)
ExpandedFrom(i, j, table) ==
  IF i > Len(contraction_pairs) THEN table
  ELSE IF j > Len(contraction_pairs[i].variants) THEN ExpandedFrom(i + 1, 1, table)
  ELSE IF ~IsExpanded(contraction_pairs[i].variants[j]) THEN ExpandedFrom(i, j + 1, table)
  ELSE IF KeyIndex(table, contraction_pairs[i].variants[j]) = 0
       THEN ExpandedFrom(i, j + 1,
              Append(table, [key |-> contraction_pairs[i].variants[j],
                             variants |-> <<contraction_pairs[i].key>>]))
       ELSE ExpandedFrom(i, j + 1,
              [table EXCEPT ![KeyIndex(table, contraction_pairs[i].variants[j])].variants =
                              Append(@, contraction_pairs[i].key)])

\* the reverse mapping from expanded forms to contracted forms
expanded_to_contraction == ExpandedFrom(1, 1, <<>>)

\* contraction_pairs.update(expanded_to_contraction): no expanded form is a
\* key of contraction_pairs, so the update appends the new entries in order
all_pairs == contraction_pairs \o expanded_to_contraction

\* contraction.lower() and variant.lower() of every entry
lowered_pairs ==
  [i \in 1..Len(all_pairs) |->
     [key |-> Lower(all_pairs[i].key),
      variants |-> [j \in 1..Len(all_pairs[i].variants) |->
                      Lower(all_pairs[i].variants[j])]]]

\* alternatives with alt_query appended unless it is the query or already there
AddAlternative(alternatives, alt_query, query_lower) ==
  IF alt_query # query_lower /\ ~InSeq(alt_query, alternatives)
  THEN Append(alternatives, alt_query)
  ELSE alternatives

\* the entries the loop body runs for, in dictionary order:
\* "if contraction in query_lower"
MatchingPairs(query_lower) ==
  SelectSeq([i \in 1..Len(lowered_pairs) |-> i],
            LAMBDA i : Contains(query_lower, lowered_pairs[i].key))

RECURSIVE AlternativesFrom(_, _, _, _, _)
AlternativesFrom(query_lower, pairs, n, j, alternatives) ==
  IF n > Len(pairs) THEN alternatives
  ELSE IF j > Len(lowered_pairs[pairs[n]].variants)
       THEN AlternativesFrom(query_lower, pairs, n + 1, 1, alternatives)
  ELSE AlternativesFrom(query_lower, pairs, n, j + 1,
         AddAlternative(alternatives,
                        Replace(query_lower, lowered_pairs[pairs[n]].key,
                                lowered_pairs[pairs[n]].variants[j]),
                        query_lower))

\* the alternative forms to search for, the lowercased query first
Alternatives(query_lower) ==
  AlternativesFrom(query_lower, MatchingPairs(query_lower), 1, 1, <<query_lower>>)

\* 0.6 + 0.2 * match_count + 0.2 * position_factor, times weight, times 0.9
\* for an alternative that is not the primary query
PositionFactor(text, alt_query) ==
  IF text # <<>>
  THEN Rat(Len(text) + 1 - Find(text, alt_query), Len(text) + 1)
  ELSE Zero

Penalty(alt_query, query_lower) ==
  IF alt_query # query_lower THEN Rat(9, 10) ELSE Rat(1, 1)

ExactScore(weight, text, alt_query, query_lower) ==
  RMul(RMul(weight,
            RAdd(Rat(3 + Count(text, alt_query), 5),
                 RMul(Rat(1, 5), PositionFactor(text, alt_query)))),
       Penalty(alt_query, query_lower))

\* a variant that takes the last alternative the text contains, as a scan
\* without the "break" does
LastMatch(alternatives, text) ==
  IF \E k \in DOMAIN alternatives : Contains(text, alternatives[k])
  THEN CHOOSE k \in DOMAIN alternatives :
         /\ Contains(text, alternatives[k])
         /\ \A j \in (k + 1)..Len(alternatives) : ~Contains(text, alternatives[j])
  ELSE 0

\* the first alternative, in enumeration order, that the text contains; 0 if none
FirstMatch(alternatives, text) ==
  IF \E k \in DOMAIN alternatives : Contains(text, alternatives[k])
  THEN CHOOSE k \in DOMAIN alternatives :
         \A j \in 1..k : Contains(text, alternatives[j]) <=> j = k
  ELSE 0

\* the results with the message added when its text has an alternative
ExactResult(results, weight, msg, text, alternatives, query_lower, k) ==
  IF k = 0 THEN results
  ELSE Append(results,
         [score |-> ExactScore(weight, text, alternatives[k], query_lower),
          msg |-> msg])

ExactMatch(results, modes, msg, text, alternatives, query_lower) ==
  ExactResult(results, Get(Get(modes, "exact", <<>>), "weight", Rat(1, 1)), msg, text,
              alternatives, query_lower, FirstMatch(alternatives, text))

RECURSIVE ExactScan(_, _, _, _, _, _)
ExactScan(modes, msgs, alternatives, query_lower, i, results) ==
  IF i > Len(msgs) THEN results
  ELSE ExactScan(modes, msgs, alternatives, query_lower, i + 1,
         ExactMatch(results, modes, msgs[i],
                    Lower(Normalize(Get(msgs[i], "text", <<>>))),
                    alternatives, query_lower))

SearchAlternatives(modes, msgs, query_lower) ==
  SortDesc(ExactScan(modes, msgs, Alternatives(query_lower), query_lower, 1, <<>>))

exact_search(modes, q, msgs) == SearchAlternatives(modes, msgs, Lower(Normalize(q)))

----------------------------------------------------------------------------
(* re.compile and pattern.finditer, for the pattern syntax that queries    *)
(* over PatternChars and the rewrites of _regex_search can produce:        *)
(* literals, ".", backslash escapes, character sets "[...]", groups        *)
(* "(...)", alternation "|", the "?" quantifier (greedy and lazy) and the  *)
(* "{n}" quantifier.  A construct outside this syntax compiles to the      *)
(* status "unmodelled"; no query of the model reaches it.                  *)

PatternChars ==
  {"a", "c", "d", "e", "h", "i", "l", "n", "o", "r", "s", "t", "u", "v", "w", "D",
   "'", " ", "\n", "(", ")", "[", "]", "|", "?", "\\", ".", "{", "}", "9"}

Letters == UpperSet \cup {LowerChars[i] : i \in 1..26}

Digits == {"9"}

\* sre_parse: the letters after "(?" that open an extension this model leaves out
ExtensionChars == {"a", "i", "L", "m", "s", "u", "x", "P", "("}

\* sre_parse: letters that are valid escapes; of these "\d", "\D", "\n" are modelled
EscapeLetters == {"a", "b", "f", "n", "r", "t", "v", "x", "u", "U", "N",
                  "A", "B", "d", "D", "s", "S", "w", "W", "Z"}

\* sre_constants.MAXREPEAT is 4294967295: a repetition count written with
\* this many digits 9 reaches it, a shorter one does not
MaxRepeatDigits == 10

Fail(st) == [st |-> st, node |-> [t |-> "none"], pos |-> 0]

Ok(node, pos) == [st |-> "ok", node |-> node, pos |-> pos]

\* the number of digits that follow position i
RECURSIVE DigitRun(_, _)
DigitRun(p, i) == IF i + 1 <= Len(p) /\ p[i + 1] \in Digits THEN 1 + DigitRun(p, i + 1) ELSE 0

\* "{" at i opens a repetition count "{9...9}"
RepeatOf(p, i, k) ==
  /\ i <= Len(p)
  /\ p[i] = "{"
  /\ k >= 1
  /\ i + k + 1 <= Len(p)
  /\ p[i + k + 1] = "}"

IsRepeatAt(p, i) == RepeatOf(p, i, DigitRun(p, i))

RECURSIVE Pow10(_)
Pow10(k) == IF k = 0 THEN 1 ELSE 10 * Pow10(k - 1)

\* a character set "[...]" whose first member is at j
RECURSIVE ParseSet(_, _, _, _)
ParseSet(p, j, cs, first) ==
  IF j > Len(p) THEN Fail("error")
  ELSE IF p[j] = "]" /\ ~first THEN Ok([t |-> "set", cs |-> cs, neg |-> FALSE], j + 1)
  ELSE IF p[j] = "\\"
       THEN IF j = Len(p) THEN Fail("error")
            ELSE IF p[j + 1] = "d" THEN ParseSet(p, j + 2, cs \cup Digits, FALSE)
            ELSE IF p[j + 1] = "n" THEN ParseSet(p, j + 2, cs \cup {"\n"}, FALSE)
            ELSE IF p[j + 1] \in EscapeLetters THEN Fail("unmodelled")
            ELSE IF p[j + 1] \in Letters \cup Digits THEN Fail("error")
            ELSE ParseSet(p, j + 2, cs \cup {p[j + 1]}, FALSE)
  ELSE ParseSet(p, j + 1, cs \cup {p[j]}, FALSE)

\* a backslash escape outside a set, the backslash at i
ParseEscape(p, i) ==
  IF i = Len(p) THEN Fail("error")
  ELSE IF p[i + 1] = "d" THEN Ok([t |-> "set", cs |-> Digits, neg |-> FALSE], i + 2)
  ELSE IF p[i + 1] = "D" THEN Ok([t |-> "set", cs |-> Digits, neg |-> TRUE], i + 2)
  ELSE IF p[i + 1] = "n" THEN Ok([t |-> "lit", c |-> "\n"], i + 2)
  ELSE IF p[i + 1] \in EscapeLetters \cup Digits THEN Fail("unmodelled")
  ELSE IF p[i + 1] \in Letters THEN Fail("error")
  ELSE Ok([t |-> "lit", c |-> p[i + 1]], i + 2)

IsRepeatNode(node) == node.t \in {"opt", "rep"}

RECURSIVE ParseAlt(_, _, _)
RECURSIVE ParseSeq(_, _, _)

\* the group whose body r has been parsed: ")" must follow
CloseGroup(p, r) ==
  IF r.st # "ok" THEN r
  ELSE IF r.pos > Len(p) THEN Fail("error")
  ELSE Ok([t |-> "group", x |-> r.node], r.pos + 1)

\* "(" at i
ParseGroup(p, i) ==
  IF i + 1 <= Len(p) /\ p[i + 1] = "?"
  THEN IF i + 2 <= Len(p) /\ p[i + 2] \in ExtensionChars THEN Fail("unmodelled")
       ELSE Fail("error")
  ELSE CloseGroup(p, ParseAlt(p, i + 1, <<>>))

\* one item that is not a quantifier, at i
ParseAtom(p, i) ==
  IF p[i] = "\\" THEN ParseEscape(p, i)
  ELSE IF p[i] = "[" THEN ParseSet(p, i + 1, {}, TRUE)
  ELSE IF p[i] = "(" THEN ParseGroup(p, i)
  ELSE IF p[i] = "." THEN Ok([t |-> "any"], i + 1)
  ELSE Ok([t |-> "lit", c |-> p[i]], i + 1)

\* the quantifier read at i: "?" or "{9...9}", with the position after it
ReadQuantifier(p, i, k) ==
  IF p[i] = "?" THEN Ok([t |-> "opt", x |-> 0, greedy |-> TRUE], i + 1)
  \* the tokenizer reads one token ahead of the parser: a lone backslash
  \* that ends the pattern is reported before the repetition count is
  ELSE IF i + k + 2 = Len(p) /\ p[i + k + 2] = "\\" THEN Fail("error")
  ELSE IF k >= MaxRepeatDigits THEN Fail("overflow")
  ELSE Ok([t |-> "rep", x |-> 0, greedy |-> TRUE, n |-> Pow10(k) - 1], i + k + 2)

\* the quantifier q applied to the last item of the sequence parsed so far;
\* a "?" after it makes it lazy
Quantify(p, items, q, lazy) ==
  IF q.st # "ok" THEN q
  ELSE IF items = <<>> \/ IsRepeatNode(items[Len(items)]) THEN Fail("error")
  ELSE ParseSeq(p, IF lazy THEN q.pos + 1 ELSE q.pos,
                [items EXCEPT ![Len(items)] =
                   [q.node EXCEPT !.x = items[Len(items)], !.greedy = ~lazy]])

IsLazyAt(p, q) == q.st = "ok" /\ q.pos <= Len(p) /\ p[q.pos] = "?"

QuantifyAt(p, items, q) == Quantify(p, items, q, IsLazyAt(p, q))

AppendAtom(p, items, r) ==
  IF r.st # "ok" THEN r ELSE ParseSeq(p, r.pos, Append(items, r.node))

\* the items of one branch, up to "|", ")" or the end of the pattern
ParseSeq(p, i, items) ==
  IF i > Len(p) \/ p[i] \in {"|", ")"} THEN Ok([t |-> "cat", xs |-> items], i)
  ELSE IF p[i] = "?" \/ IsRepeatAt(p, i)
       THEN QuantifyAt(p, items, ReadQuantifier(p, i, DigitRun(p, i)))
  ELSE AppendAtom(p, items, ParseAtom(p, i))

NextBranch(p, branches, r) ==
  IF r.st # "ok" THEN r
  ELSE IF r.pos <= Len(p) /\ p[r.pos] = "|"
       THEN ParseAlt(p, r.pos + 1, Append(branches, r.node))
  ELSE Ok([t |-> "alt", xs |-> Append(branches, r.node)], r.pos)

\* branches separated by "|"
ParseAlt(p, i, branches) == NextBranch(p, branches, ParseSeq(p, i, <<>>))

\* a ")" left over after the last branch is unbalanced
WholePattern(p, r) ==
  IF r.st # "ok" THEN r
  ELSE IF r.pos <= Len(p) THEN Fail("error")
  ELSE r

\* re.compile(pattern): status "ok" with the parsed pattern, "error" for
\* re.error, "overflow" for OverflowError
Compile(p) ==
  IF \E i \in DOMAIN p : p[i] \notin PatternChars THEN Fail("unmodelled")
  ELSE WholePattern(p, ParseAlt(p, 1, <<>>))

CharEq(a, b, ignore_case) == a = b \/ (ignore_case /\ LowerChar(a) = LowerChar(b))

RECURSIVE Flatten(_)
Flatten(ss) == IF ss = <<>> THEN <<>> ELSE Head(ss) \o Flatten(Tail(ss))

\* The offsets at which a match of node that starts at offset i can end, in
\* the order in which the backtracking matcher tries them.
RECURSIVE Ends(_, _, _, _)
RECURSIVE EndsCat(_, _, _, _, _)
RECURSIVE EndsRep(_, _, _, _, _)

Ends(node, text, i, flags) ==
  CASE node.t = "lit" ->
         IF i < Len(text) /\ CharEq(text[i + 1], node.c, flags.ignore_case)
         THEN <<i + 1>> ELSE <<>>
    [] node.t = "any" ->
         IF i < Len(text) /\ (flags.dot_all \/ text[i + 1] # "\n")
         THEN <<i + 1>> ELSE <<>>
    [] node.t = "set" ->
         IF i < Len(text) /\
            ((\E c \in node.cs : CharEq(text[i + 1], c, flags.ignore_case)) # node.neg)
         THEN <<i + 1>> ELSE <<>>
    [] node.t = "group" -> Ends(node.x, text, i, flags)
    [] node.t = "cat" -> EndsCat(node.xs, 1, text, <<i>>, flags)
    [] node.t = "alt" ->
         Flatten([k \in 1..Len(node.xs) |-> Ends(node.xs[k], text, i, flags)])
    [] node.t = "opt" ->
         IF node.greedy THEN Ends(node.x, text, i, flags) \o <<i>>
         ELSE <<i>> \o Ends(node.x, text, i, flags)
    [] node.t = "rep" -> EndsRep(node.x, node.n, text, <<i>>, flags)

EndsCat(xs, k, text, starts, flags) ==
  IF k > Len(xs) \/ starts = <<>> THEN starts
  ELSE EndsCat(xs, k + 1, text,
         Flatten([s \in 1..Len(starts) |-> Ends(xs[k], text, starts[s], flags)]), flags)

EndsRep(x, n, text, starts, flags) ==
  IF n = 0 \/ starts = <<>> THEN starts
  ELSE EndsRep(x, n - 1, text,
         Flatten([s \in 1..Len(starts) |-> Ends(x, text, starts[s], flags)]), flags)

\* the ends of the matches the scanner accepts at offset s: after an empty
\* match it does not accept another empty match at the same offset
Accepted(node, text, s, must_advance, flags) ==
  SelectSeq(Ends(node, text, s, flags), LAMBDA e : ~must_advance \/ e # s)

\* list(pattern.finditer(text)) scanned from offset pos: [start, end] pairs
RECURSIVE FindIter(_, _, _, _, _, _)

NextMatch(node, text, pos, s, must_advance, flags, ends) ==
  IF ends = <<>> THEN FindIter(node, text, pos, s + 1, must_advance, flags)
  ELSE <<[start |-> s, end |-> Head(ends)]>> \o
       FindIter(node, text, Head(ends), Head(ends), Head(ends) = s, flags)

FindIter(node, text, pos, s, must_advance, flags) ==
  IF s > Len(text) THEN <<>>
  ELSE NextMatch(node, text, pos, s, must_advance, flags,
                 Accepted(node, text, s, must_advance /\ s = pos, flags))

\* re.escape(s)
EscapeSpecial == {"(", ")", "[", "]", "{", "}", "?", "|", "\\", ".", " ", "\n"}

RECURSIVE Escape(_)
Escape(s) ==
  IF s = <<>> THEN <<>>
  ELSE (IF Head(s) \in EscapeSpecial THEN <<"\\", Head(s)>> ELSE <<Head(s)>>)
       \o Escape(Tail(s))

\* re.sub(re.escape(old), new, s, flags=re.IGNORECASE) for an old made of
\* letters and apostrophes and a new whose only escape is backslash-space,
\* which the replacement template leaves alone
RECURSIVE SubIgnoreCaseFrom(_, _, _, _)
SubIgnoreCaseFrom(s, old, new, i) ==
  IF i > Len(s) THEN <<>>
  ELSE IF OccursAt(Lower(s), Lower(old), i)
       THEN new \o SubIgnoreCaseFrom(s, old, new, i + Len(old))
  ELSE <<s[i]>> \o SubIgnoreCaseFrom(s, old, new, i + 1)

SubIgnoreCase(s, old, new) == SubIgnoreCaseFrom(s, old, new, 1)

----------------------------------------------------------------------------
(* _regex_search                                                           *)

contraction_terms ==
  <<
     [key |-> <<"d", "o", "n", "'", "t">>,
      variants |-> <<<<"d", "i", "d", "n", "'", "t">>,
                     <<"d", "o", "n", "'", "t">>,
                     <<"d", "o", " ", "n", "o", "t">>,
                     <<"d", "i", "d", " ", "n", "o", "t">>>>],
     [key |-> <<"d", "i", "d", "n", "'", "t">>,
      variants |-> <<<<"d", "o", "n", "'", "t">>,
                     <<"d", "i", "d", "n", "'", "t">>,
                     <<"d", "i", "d", " ", "n", "o", "t">>,
                     <<"d", "o", " ", "n", "o", "t">>>>],
     [key |-> <<"i", "s", "n", "'", "t">>,
      variants |-> <<<<"w", "a", "s", "n", "'", "t">>,
                     <<"i", "s", "n", "'", "t">>,
                     <<"i", "s", " ", "n", "o", "t">>,
                     <<"w", "a", "s", " ", "n", "o", "t">>>>],
     [key |-> <<"w", "a", "s", "n", "'", "t">>,
      variants |-> <<<<"i", "s", "n", "'", "t">>,
                     <<"w", "a", "s", "n", "'", "t">>,
                     <<"w", "a", "s", " ", "n", "o", "t">>,
                     <<"i", "s", " ", "n", "o", "t">>>>],
     [key |-> <<"c", "a", "n", "'", "t">>,
      variants |-> <<<<"c", "o", "u", "l", "d", "n", "'", "t">>,
                     <<"c", "a", "n", "'", "t">>,
                     <<"c", "a", "n", "n", "o", "t">>,
                     <<"c", "o", "u", "l", "d", " ", "n", "o", "t">>>>],
     [key |-> <<"c", "o", "u", "l", "d", "n", "'", "t">>,
      variants |-> <<<<"c", "a", "n", "'", "t">>,
                     <<"c", "o", "u", "l", "d", "n", "'", "t">>,
                     <<"c", "o", "u", "l", "d", " ", "n", "o", "t">>,
                     <<"c", "a", "n", "n", "o", "t">>>>],
     [key |-> <<"w", "o", "n", "'", "t">>,
      variants |-> <<<<"w", "o", "u", "l", "d", "n", "'", "t">>,
                     <<"w", "o", "n", "'", "t">>,
                     <<"w", "i", "l", "l", " ", "n", "o", "t">>,
                     <<"w", "o", "u", "l", "d", " ", "n", "o", "t">>>>],
     [key |-> <<"w", "o", "u", "l", "d", "n", "'", "t">>,
      variants |-> <<<<"w", "o", "n", "'", "t">>,
                     <<"w", "o", "u", "l", "d", "n", "'", "t">>,
                     <<"w", "o", "u", "l", "d", " ", "n", "o", "t">>,
                     <<"w", "i", "l", "l", " ", "n", "o", "t">>>>]
  >>


\* "['']?": the optional-apostrophe class of the rewrite
OptionalApostrophe == <<"[", "'", "'", "]", "?">>

\* "|".join(parts)
RECURSIVE Join(_)
Join(parts) ==
  IF parts = <<>> THEN <<>>
  ELSE IF Len(parts) = 1 THEN Head(parts)
  ELSE Head(parts) \o <<"|">> \o Join(Tail(parts))

\* the alternation group that stands for one contraction
PatternPart(alternatives) ==
  <<"(">> \o
  Join([k \in 1..Len(alternatives) |->
          IF InSeq("'", alternatives[k])
          THEN Replace(alternatives[k], <<"'">>, OptionalApostrophe)
          ELSE Escape(alternatives[k])])
  \o <<")">>

\* the first contraction of contraction_terms the query contains; 0 if none
\* contraction.lower() of every entry of contraction_terms
lowered_terms == [k \in 1..Len(contraction_terms) |-> Lower(contraction_terms[k].key)]

HasContraction(normalized_query, k) == Contains(Lower(normalized_query), lowered_terms[k])

FoundContraction(normalized_query) ==
  IF \E k \in DOMAIN contraction_terms : HasContraction(normalized_query, k)
  THEN CHOOSE k \in DOMAIN contraction_terms :
         \A j \in 1..k : HasContraction(normalized_query, j) <=> j = k
  ELSE 0

Rewrite(normalized_query, k) ==
  IF k # 0
  THEN SubIgnoreCase(normalized_query, contraction_terms[k].key,
                     PatternPart(contraction_terms[k].variants))
  ELSE Replace(normalized_query, <<"'">>, OptionalApostrophe)

RewriteNormalized(normalized_query) ==
  Rewrite(normalized_query, FoundContraction(normalized_query))

\* the pattern built from the query, before truncation
FlexibleQuery(q) == RewriteNormalized(Normalize(q))

\* flexible_query[:max_length] when len(flexible_query) > max_length
Truncate(flexible_query, max_length) ==
  IF Len(flexible_query) > max_length
  THEN IF max_length >= 0 THEN SubSeq(flexible_query, 1, max_length)
       ELSE SubSeq(flexible_query, 1, Len(flexible_query) + max_length)
  ELSE flexible_query

RegexOptions(modes) == Get(Get(modes, "regex", <<>>), "options", <<>>)

RegexFlags(modes) ==
  [ignore_case |-> Get(RegexOptions(modes), "ignore_case", TRUE),
   dot_all |-> Get(RegexOptions(modes), "dot_all", FALSE)]

\* the pattern handed to re.compile
Pattern(modes, q) ==
  Truncate(FlexibleQuery(q), Get(RegexOptions(modes), "max_pattern_length", 1000))

Min(a, b) == IF a < b THEN a ELSE b

\* weight * (0.6 + 0.2 * min(match_count, 5) + 0.2 * position_factor)
RegexScore(weight, normalized_text, matches) ==
  RMul(weight,
       RAdd(Rat(3 + Min(Len(matches), 5), 5),
            RMul(Rat(1, 5),
                 Rat(Len(normalized_text) - matches[1].start, Len(normalized_text)))))

\* the results with the message added when its text has a match
RegexResult(results, weight, msg, normalized_text, matches) ==
  IF normalized_text # <<>> /\ matches # <<>>
  THEN Append(results,
         [score |-> RegexScore(weight, normalized_text, matches), msg |-> msg])
  ELSE results

RegexMatch(results, modes, msg, node, normalized_text) ==
  RegexResult(results, Get(Get(modes, "regex", <<>>), "weight", Rat(1, 1)), msg,
              normalized_text,
              FindIter(node, normalized_text, 0, 0, FALSE, RegexFlags(modes)))

RECURSIVE RegexScan(_, _, _, _, _)
RegexScan(modes, msgs, node, i, results) ==
  IF i > Len(msgs) THEN results
  ELSE RegexScan(modes, msgs, node, i + 1,
         RegexMatch(results, modes, msgs[i], node,
                    Normalize(Get(msgs[i], "text", <<>>))))

Returned(results) == [raised |-> "none", results |-> results]

Raised(exception) == [raised |-> exception, results |-> <<>>]

\* only re.error is caught; any other exception of re.compile propagates
SearchCompiled(modes, q, msgs, compiled) ==
  IF compiled.st = "ok"
  THEN Returned(SortDesc(RegexScan(modes, msgs, compiled.node, 1, <<>>)))
  ELSE IF compiled.st = "error" THEN Returned(exact_search(modes, q, msgs))
  ELSE IF compiled.st = "overflow" THEN Raised("OverflowError")
  ELSE Raised("unmodelled")

regex_search(modes, q, msgs) == SearchCompiled(modes, q, msgs, Compile(Pattern(modes, q)))

----------------------------------------------------------------------------
(* _hybrid_search                                                          *)

\* "exact" in self.search_modes and self.search_modes["exact"].get("enabled", False)
ModeEnabled(modes, name) ==
  name \in DOMAIN modes /\ Get(modes[name], "enabled", FALSE)

IdIndex(acc, msg_id) ==
  IF \E k \in DOMAIN acc : acc[k].id = msg_id
  THEN CHOOSE k \in DOMAIN acc : acc[k].id = msg_id
  ELSE 0

\* a variant that assigns the contribution to msg_scores[msg_id] instead of
\* adding it
AddAtOverwrite(acc, k, msg_id, msg, contribution) ==
  IF k = 0 THEN Append(acc, [id |-> msg_id, score |-> contribution, msg |-> msg])
  ELSE [acc EXCEPT ![k].score = contribution, ![k].msg = msg]

\* all_results[msg_id] = msg; msg_scores[msg_id] += score * weight.  acc keeps
\* the identities in the order msg_scores first saw them.
AddAt(acc, k, msg_id, msg, contribution) ==
  IF k = 0 THEN Append(acc, [id |-> msg_id, score |-> contribution, msg |-> msg])
  ELSE [acc EXCEPT ![k].score = RAdd(@, contribution), ![k].msg = msg]

\* a variant without the "if msg_id" test
AddScoreAnyIdentity(acc, msg_id, msg, contribution) ==
  AddAt(acc, IdIndex(acc, msg_id), msg_id, msg, contribution)

AddScore(acc, msg_id, msg, contribution) ==
  IF msg_id = "" THEN acc
  ELSE AddAt(acc, IdIndex(acc, msg_id), msg_id, msg, contribution)

RECURSIVE Accumulate(_, _, _, _)
Accumulate(acc, results, weight, i) ==
  IF i > Len(results) THEN acc
  ELSE Accumulate(AddScore(acc, Get(results[i].msg, "name", ""), results[i].msg,
                           RMul(results[i].score, weight)),
                  results, weight, i + 1)

HybridWeights(cfg) == Get(Get(cfg, "search", <<>>), "hybrid_weights", <<>>)

\* the (score, message) pairs the exact pass of hybrid search reads
HybridExactResults(modes, q, msgs) ==
  IF ModeEnabled(modes, "exact") THEN exact_search(modes, Strip(q), msgs) ELSE <<>>

\* the outcome of the regex pass of hybrid search
HybridRegexOutcome(modes, q, msgs) ==
  IF ModeEnabled(modes, "regex") THEN regex_search(modes, Strip(q), msgs)
  ELSE Returned(<<>>)

\* the combined list: one (score, message) pair per accumulated identity
Combined(acc) ==
  SortDesc([k \in 1..Len(acc) |-> [score |-> acc[k].score, msg |-> acc[k].msg]])

Combine(cfg, exact_results, regex_outcome) ==
  IF regex_outcome.raised # "none" THEN regex_outcome
  ELSE Returned(Combined(
         Accumulate(Accumulate(<<>>, exact_results,
                               Get(HybridWeights(cfg), "exact", Rat(1, 1)), 1),
                    regex_outcome.results,
                    Get(HybridWeights(cfg), "regex", Rat(6, 5)), 1)))

hybrid_search(cfg, modes, q, msgs) ==
  Combine(cfg, HybridExactResults(modes, q, msgs), HybridRegexOutcome(modes, q, msgs))

----------------------------------------------------------------------------
(* construction and mode dispatch                                          *)

\* the mode argument None
NoMode == "<None>"

RECURSIVE InitializeFrom(_, _, _)
InitializeFrom(entries, i, modes) ==
  IF i > Len(entries) THEN modes
  ELSE LET entry == entries[i]
       IN  InitializeFrom(entries, i + 1,
             IF Get(entry, "enabled", FALSE) /\ entry.name # "semantic"
             THEN [n \in DOMAIN modes \cup {entry.name} |->
                     IF n = entry.name THEN entry ELSE modes[n]]
             ELSE modes)

initialize_search_modes(cfg) ==
  InitializeFrom(Get(cfg, "search_modes", <<>>), 1, [n \in {} |-> <<>>])

DefaultOf(default) == IF default = "semantic" THEN "exact" ELSE default

get_default_mode(cfg) ==
  DefaultOf(Get(Get(cfg, "search", <<>>), "default_mode", "exact"))

\* a variant that sends "semantic" to the pattern matcher
SubstituteRegex(given) == IF given = "semantic" THEN "regex" ELSE given

\* the mode after the None and the semantic substitutions
Substitute(given) == IF given = "semantic" THEN "exact" ELSE given

ResolvedMode(cfg, m) == Substitute(IF m = NoMode THEN get_default_mode(cfg) ELSE m)

\* a variant without the "mode not in self.search_modes" test
DispatchWithoutGate(cfg, modes, q, msgs, resolved) ==
  IF resolved = "hybrid" THEN hybrid_search(cfg, modes, q, msgs)
  ELSE IF resolved = "exact" THEN Returned(exact_search(modes, q, msgs))
  ELSE IF resolved = "regex" THEN regex_search(modes, q, msgs)
  ELSE Raised("ValueError")

\* a variant whose final branch runs exact search instead of raising
DispatchUnknownToExact(cfg, modes, q, msgs, resolved) ==
  IF resolved = "hybrid" THEN hybrid_search(cfg, modes, q, msgs)
  ELSE IF resolved = "regex" /\ resolved \in DOMAIN modes THEN regex_search(modes, q, msgs)
  ELSE Returned(exact_search(modes, q, msgs))

Dispatch(cfg, modes, q, msgs, resolved) ==
  IF resolved # "hybrid" /\ resolved \notin DOMAIN modes
  THEN Returned(exact_search(modes, q, msgs))
  ELSE IF resolved = "hybrid" THEN hybrid_search(cfg, modes, q, msgs)
  ELSE IF resolved = "exact" THEN Returned(exact_search(modes, q, msgs))
  ELSE IF resolved = "regex" THEN regex_search(modes, q, msgs)
  ELSE Raised("ValueError")

search(cfg, modes, q, msgs, m) == Dispatch(cfg, modes, q, msgs, ResolvedMode(cfg, m))

----------------------------------------------------------------------------
(* The inputs of the model: queries, message records and configurations    *)

Q_dont == <<"d", "o", "n", "'", "t">>

Q_Dont_smart == <<"D", "o", "n", "RSQ", "t">>

Q_unclosed == <<"d", "(", "n">>

Q_overflow == <<"d", "{", "9", "9", "9", "9", "9", "9", "9", "9", "9", "9", "}">>

Q_padded == <<" ", "n", "o", "t", " ">>

Q_dot == <<"d", ".", "t">>

Q_empty == <<>>

Q_apostrophe == <<"n", "'", "t">>

Q_alternation == <<"n", "o", "t", "|", "d", "o">>

Q_optional == <<"o", "?">>

Q_wide == <<"FWD", "o", "n", "t">>

T_did_not == <<"d", "i", "d", " ", "n", "o", "t">>

T_Dont_do == <<"D", "o", "n", "RSQ", "t", " ", "d", "o">>

T_didnt == <<"d", "i", "d", "n", "'", "t">>

T_dont == <<"d", "o", "n", "t">>

T_lines == <<"d", "(", "n", "\n", "t">>

Queries ==
  {Q_dont,
   Q_Dont_smart,
   Q_unclosed,
   Q_overflow,
   Q_padded,
   Q_dot,
   Q_empty,
   Q_apostrophe,
   Q_alternation,
   Q_optional,
   Q_wide}
\* message records; "name" is the identity, either field may be missing
MessagePool ==
  {[name |-> "m1", text |-> T_did_not],
   [name |-> "m1", text |-> T_Dont_do],
   [name |-> "", text |-> T_didnt],
   [text |-> T_dont],
   [name |-> "m3"],
   [name |-> "m3", text |-> T_lines]}

\* the longest message list the caller passes
MaxMessages == 2

\* the lists of at most n distinct messages of S, in every order
RECURSIVE ListsUpTo(_, _)
ListsUpTo(S, n) ==
  IF n = 0 THEN {<<>>}
  ELSE ListsUpTo(S, n - 1) \cup
       {Append(s, x) : s \in {l \in ListsUpTo(S, n - 1) : Len(l) = n - 1}, x \in S}

MessageLists == {l \in ListsUpTo(MessagePool, MaxMessages) :
                   \A i, j \in 1..Len(l) : i # j => l[i] # l[j]}

Modes == {NoMode, "exact", "regex", "hybrid", "semantic", "fuzzy", "unsupported"}

ExactEntry(enabled, weight) ==
  [name |-> "exact", enabled |-> enabled, weight |-> weight]

RegexEntry(enabled, weight, options) ==
  [name |-> "regex", enabled |-> enabled, weight |-> weight, options |-> options]

SemanticEntry == [name |-> "semantic", enabled |-> TRUE, weight |-> Rat(3, 2)]

\* the documents the configuration file can hold
Configs ==
  {\* every mode enabled, the documented hybrid weights
   [search_modes |-> <<ExactEntry(TRUE, Rat(1, 1)),
                       RegexEntry(TRUE, Rat(1, 1),
                                  [ignore_case |-> TRUE, dot_all |-> FALSE,
                                   unicode |-> TRUE, max_pattern_length |-> 1000]),
                       SemanticEntry>>,
    search |-> [default_mode |-> "semantic",
                hybrid_weights |-> [exact |-> Rat(1, 1), regex |-> Rat(6, 5)]]],
   \* exact disabled, a short pattern limit, case-sensitive patterns
   [search_modes |-> <<ExactEntry(FALSE, Rat(2, 1)),
                       RegexEntry(TRUE, Rat(1, 2),
                                  [ignore_case |-> FALSE, max_pattern_length |-> 12])>>,
    search |-> [default_mode |-> "regex"]],
   \* regex disabled, hybrid by default
   [search_modes |-> <<ExactEntry(TRUE, Rat(2, 1)),
                       [name |-> "regex", weight |-> Rat(1, 1)]>>,
    search |-> [default_mode |-> "hybrid",
                hybrid_weights |-> [exact |-> Rat(1, 2)]]],
   \* an enabled entry under another name, which is also the default mode
   [search_modes |-> <<ExactEntry(TRUE, Rat(1, 1)),
                       [name |-> "fuzzy", enabled |-> TRUE],
                       [name |-> "regex", enabled |-> TRUE]>>,
    search |-> [default_mode |-> "fuzzy",
                hybrid_weights |-> [exact |-> Rat(0, 1), regex |-> Rat(1, 1)]]],
   \* an empty document
   [search_modes |-> <<>>],
   \* a repeated entry: the later enabled one wins, a disabled one is ignored
   [search_modes |-> <<RegexEntry(TRUE, Rat(1, 1), [dot_all |-> TRUE]),
                       RegexEntry(TRUE, Rat(2, 1),
                                  [dot_all |-> TRUE, max_pattern_length |-> 3]),
                       ExactEntry(TRUE, Rat(1, 2)),
                       ExactEntry(FALSE, Rat(1, 1))>>,
    search |-> [hybrid_weights |-> [regex |-> Rat(1, 1)]]]}

----------------------------------------------------------------------------
(* The manager and its caller                                              *)

NoCall == [raised |-> "no call", results |-> <<>>]

Init ==
  /\ config \in Configs
  /\ search_modes = initialize_search_modes(config)
  /\ messages = <<>>
  /\ op = "none"
  /\ query = <<>>
  /\ mode = NoMode
  /\ outcome = NoCall
  /\ prev = NoCall

\* the value a call of the entry point returns, or the exception it raises
Call(name, cfg, modes, q, msgs, m) ==
  CASE name = "search" -> search(cfg, modes, q, msgs, m)
    [] name = "_regex_search" -> regex_search(modes, q, msgs)
    [] name = "_exact_search" -> Returned(exact_search(modes, q, msgs))

\* the provider hands the caller a new message list
Receive ==
  /\ op = "none"
  /\ \E msgs \in MessageLists : messages' = msgs
  /\ UNCHANGED <<config, search_modes, op, query, mode, outcome, prev>>

\* the caller calls op with the query q and the mode m
\* a variant that cuts the caller's list down to the messages it returns
InvokeInPlace(name, q, m) ==
  /\ op' = name
  /\ query' = q
  /\ mode' = m
  /\ outcome' = Call(name, config, search_modes, q, messages, m)
  /\ prev' = NoCall
  /\ messages' = [k \in DOMAIN outcome'.results |-> outcome'.results[k].msg]
  /\ UNCHANGED <<config, search_modes>>

Invoke(name, q, m) ==
  /\ op' = name
  /\ query' = q
  /\ mode' = m
  /\ outcome' = Call(name, config, search_modes, q, messages, m)
  /\ prev' = NoCall
  /\ UNCHANGED <<config, search_modes, messages>>

\* manager.search(query, messages, mode)
SearchCall == op = "none" /\ \E q \in Queries, m \in Modes : Invoke("search", q, m)

\* manager._regex_search(query, messages)
RegexSearchCall == op = "none" /\ \E q \in Queries : Invoke("_regex_search", q, NoMode)

\* the caller repeats its last call with the same arguments
Repeat ==
  /\ op # "none"
  /\ prev = NoCall
  /\ prev' = outcome
  /\ outcome' = Call(op, config, search_modes, query, messages, mode)
  /\ UNCHANGED <<config, search_modes, messages, op, query, mode>>

\* the caller drops the result
Return ==
  /\ op # "none"
  /\ op' = "none"
  /\ query' = <<>>
  /\ mode' = NoMode
  /\ outcome' = NoCall
  /\ prev' = NoCall
  /\ UNCHANGED <<config, search_modes, messages>>

Next ==
  \/ Receive
  \/ SearchCall
  \/ RegexSearchCall
  \/ Repeat
  \/ Return

Spec == Init /\ [][Next]_vars

----------------------------------------------------------------------------
(* The exact matcher called on its own, over the forms of the contraction  *)
(* table                                                                   *)

\* every contraction and every variant the table lists
ContractionForms ==
  UNION {{contraction_pairs[i].key} \cup
           {contraction_pairs[i].variants[j] : j \in DOMAIN contraction_pairs[i].variants} :
         i \in DOMAIN contraction_pairs}

T_We_did_not_go == <<"W", "e", " ", "d", "i", "d", " ", "n", "o", "t", " ", "g", "o">>
T_Didnt_smart == <<"D", "i", "d", "n", "RSQ", "t">>
T_plain == <<"w", "e", " ", "w", "e", "n", "t">>
Q_WE_DONT_go == <<"W", "E", " ", "D", "O", "N", "'", "T", " ", "g", "o">>
Q_we_do_not_go == <<"w", "e", " ", "d", "o", " ", "n", "o", "t", " ", "g", "o">>

T_did_not_didnt == <<"d", "i", "d", " ", "n", "o", "t", ",", " ", "d", "i", "d", "n", "'", "t">>
T_did_not_dont == <<"d", "i", "d", " ", "n", "o", "t", " ", "d", "o", "n", "'", "t">>

ContractionTexts ==
  ContractionForms \cup {T_We_did_not_go, T_Didnt_smart, T_plain, T_did_not_didnt,
                         T_did_not_dont}

ContractionQueries ==
  ContractionForms \cup {Q_WE_DONT_go, Q_we_do_not_go, Q_Dont_smart}

\* one message, or one message after a message without a contraction
ContractionLists ==
  {<<[name |-> "c1", text |-> t]>> : t \in ContractionTexts}
    \cup {<<[name |-> "c0", text |-> T_plain], [name |-> "c1", text |-> t]>> :
            t \in ContractionTexts}

InitContractions ==
  /\ config \in Configs
  /\ search_modes = initialize_search_modes(config)
  /\ messages = <<>>
  /\ op = "none"
  /\ query = <<>>
  /\ mode = NoMode
  /\ outcome = NoCall
  /\ prev = NoCall

ReceiveContractions ==
  /\ op = "none"
  /\ \E msgs \in ContractionLists : messages' = msgs
  /\ UNCHANGED <<config, search_modes, op, query, mode, outcome, prev>>

ExactSearchCall ==
  /\ op = "none"
  /\ \E q \in ContractionQueries : Invoke("_exact_search", q, NoMode)

NextContractions == ReceiveContractions \/ ExactSearchCall \/ Return

SpecContractions == InitContractions /\ [][NextContractions]_vars

----------------------------------------------------------------------------
(* Properties                                                              *)

\* the default mode as the configuration document states it
ConfiguredDefault == Get(Get(config, "search", <<>>), "default_mode", "exact")

\* the configuration enables an entry under this name
EnabledInConfig(name) ==
  \E i \in DOMAIN Get(config, "search_modes", <<>>) :
    /\ config.search_modes[i].name = name
    /\ Get(config.search_modes[i], "enabled", FALSE)

\* C1: a search call whose mode name is not "hybrid" and is not in the
\* enabled-modes set (an unknown name, or a known name that is disabled)
\* returns exactly the list exact search returns for the same query and
\* messages, and does not raise.
C1_FallbackIsExact ==
  (op = "search" /\ mode # NoMode /\ mode # "hybrid" /\ mode \notin DOMAIN search_modes)
    => outcome = Returned(exact_search(search_modes, query, messages))

\* a disabled "regex", asked for by name, answered by exact search with a match
C1_Witness ==
  /\ op = "search"
  /\ mode = "regex"
  /\ "regex" \notin DOMAIN search_modes
  /\ outcome.raised = "none"
  /\ outcome.results # <<>>

\* C2: when the pattern built from the query fails to compile, _regex_search
\* does not raise and returns exactly the result list of exact search on the
\* original query over the same messages.
C2_CompileFailureFallsBack ==
  (op = "_regex_search" /\ Compile(Pattern(search_modes, query)).st # "ok")
    => outcome = Returned(exact_search(search_modes, query, messages))

\* the pattern of the call did not compile, the error is none that
\* "except re.error" catches, and the call raised it
C2_Witness ==
  /\ op = "_regex_search"
  /\ Compile(Pattern(search_modes, query)).st = "overflow"
  /\ messages # <<>>
  /\ outcome.raised = "OverflowError"

\* C3: search with mode "semantic", and search with mode None when the
\* configured default mode is "semantic", return exactly what search with
\* mode "exact" returns for the same query, messages and configuration.
C3_SemanticIsExact ==
  (op = "search" /\ (mode = "semantic" \/ (mode = NoMode /\ ConfiguredDefault = "semantic")))
    => outcome = search(config, search_modes, query, messages, "exact")

\* the default mode is "semantic", a semantic entry is marked enabled, and
\* the call with mode None found something
C3_Witness ==
  /\ op = "search"
  /\ mode = NoMode
  /\ ConfiguredDefault = "semantic"
  /\ EnabledInConfig("semantic")
  /\ outcome.raised = "none"
  /\ outcome.results # <<>>

\* C4 as claimed: the unsupported-mode error is not reachable through the
\* public search call, whatever the mode argument.
C4_NeverUnsupportedMode == op = "search" => outcome.raised # "ValueError"

\* the mode name the call asks for: the argument, or the configured default
AskedMode == IF mode = NoMode THEN ConfiguredDefault ELSE mode

\* C4 as amended: the public search call raises the unsupported-mode error
\* exactly when the configuration enables an entry whose name is none of
\* "exact", "regex", "hybrid", "semantic" and the mode argument (or, for
\* mode None, the configured default mode) names that entry.
C4_UnsupportedModeIffEnabledUnknown ==
  op = "search" =>
    (outcome.raised = "ValueError" <=>
       (AskedMode \notin {"exact", "regex", "hybrid", "semantic"} /\ EnabledInConfig(AskedMode)))

\* the default mode names the enabled entry "fuzzy" and the call raised
C4_Witness ==
  /\ op = "search"
  /\ mode = NoMode
  /\ outcome.raised = "ValueError"

\* a search call that ran hybrid search to its end
HybridCall ==
  /\ op = "search"
  /\ ResolvedMode(config, mode) = "hybrid"
  /\ outcome.raised = "none"

\* what the exact and the regex searches return for the query hybrid search
\* hands them; nothing for a mode that is not enabled
ExactFound ==
  IF ModeEnabled(search_modes, "exact")
  THEN exact_search(search_modes, Strip(query), messages) ELSE <<>>

RegexFound ==
  IF ModeEnabled(search_modes, "regex")
  THEN regex_search(search_modes, Strip(query), messages).results ELSE <<>>

IdentityOf(msg) == Get(msg, "name", "")

IdentitiesIn(results) == {IdentityOf(results[i].msg) : i \in DOMAIN results}

\* C5: hybrid search returns exactly one entry per distinct non-empty
\* identity found in the results of the enabled exact and regex searches,
\* and no entry for a message whose identity is missing or empty.
C5_OneEntryPerIdentity ==
  HybridCall =>
    /\ IdentitiesIn(outcome.results)
         = (IdentitiesIn(ExactFound) \cup IdentitiesIn(RegexFound)) \ {""}
    /\ Len(outcome.results) = Cardinality(IdentitiesIn(outcome.results))

\* two messages were found, one of them without an identity, and hybrid
\* search returned the other one only
C5_Witness ==
  /\ HybridCall
  /\ "" \in IdentitiesIn(ExactFound) \cup IdentitiesIn(RegexFound)
  /\ Len(ExactFound) = 2
  /\ Len(outcome.results) = 1

\* the sum of the scores a result list gives to the messages of one identity
RECURSIVE TotalFrom(_, _, _)
TotalFrom(results, id, i) ==
  IF i > Len(results) THEN Zero
  ELSE IF IdentityOf(results[i].msg) = id
       THEN RAdd(results[i].score, TotalFrom(results, id, i + 1))
       ELSE TotalFrom(results, id, i + 1)

ExactContribution(id) ==
  RMul(TotalFrom(ExactFound, id, 1), Get(HybridWeights(config), "exact", Rat(1, 1)))

RegexContribution(id) ==
  RMul(TotalFrom(RegexFound, id, 1), Get(HybridWeights(config), "regex", Rat(6, 5)))

\* C6: in hybrid search the score of each returned identity is the sum of
\* the enabled modes' scores for it, each times its hybrid weight (exact
\* default 1, regex default 1.2); when both weighted contributions are
\* positive the score is strictly more than either contribution alone; a
\* mode that is not enabled contributes nothing.
C6_WeightedSum ==
  HybridCall =>
    \A k \in DOMAIN outcome.results :
      LET id == IdentityOf(outcome.results[k].msg)
          score == outcome.results[k].score
      IN  /\ score = RAdd(ExactContribution(id), RegexContribution(id))
          /\ (RGt(ExactContribution(id), Zero) /\ RGt(RegexContribution(id), Zero))
               => (RGt(score, ExactContribution(id)) /\ RGt(score, RegexContribution(id)))
          /\ ~ModeEnabled(search_modes, "exact") => score = RegexContribution(id)
          /\ ~ModeEnabled(search_modes, "regex") => score = ExactContribution(id)

\* both modes found the returned message and both contributions are positive
C6_Witness ==
  /\ HybridCall
  /\ \E k \in DOMAIN outcome.results :
       /\ RGt(ExactContribution(IdentityOf(outcome.results[k].msg)), Zero)
       /\ RGt(RegexContribution(IdentityOf(outcome.results[k].msg)), Zero)

\* C7: every list a search returns is sorted non-increasing by score.
C7_SortedDescending ==
  \A i \in 1..(Len(outcome.results) - 1) :
    RGeq(outcome.results[i].score, outcome.results[i + 1].score)

\* the second message of the input scored more than the first and is
\* returned before it
C7_Witness ==
  /\ op = "search"
  /\ Len(outcome.results) = 2
  /\ Len(messages) = 2
  /\ outcome.results[1].msg = messages[2]
  /\ outcome.results[2].msg = messages[1]
  /\ RGt(outcome.results[1].score, outcome.results[2].score)

\* the lowercased, normalized form exact search compares
Folded(text) == Lower(Normalize(text))

IsReturned(msg) == \E k \in DOMAIN outcome.results : outcome.results[k].msg = msg

\* every message whose text contains this form is among the results
EveryMessageWith(form) ==
  \A m \in DOMAIN messages :
    Contains(Folded(Get(messages[m], "text", <<>>)), form) => IsReturned(messages[m])

\* C8: under exact search a query containing a contracted form matches
\* every message whose text contains the query with that contraction
\* replaced by any of its listed variants, and a query containing an
\* expanded multi-word form matches every message whose text contains the
\* query with that form replaced by a contraction that lists it.
C8_ContractionEquivalence ==
  (op = "_exact_search" /\ outcome.raised = "none") =>
    \A i \in DOMAIN contraction_pairs :
      \A j \in DOMAIN contraction_pairs[i].variants :
        LET key == contraction_pairs[i].key
            variant == contraction_pairs[i].variants[j]
        IN  /\ Contains(Folded(query), key)
                 => EveryMessageWith(Replace(Folded(query), key, variant))
            /\ (InSeq(" ", variant) /\ Contains(Folded(query), variant))
                 => EveryMessageWith(Replace(Folded(query), variant, key))

\* the query holds an expanded form, the text holds the query with a
\* contraction in its place and not the query itself, and the message is
\* returned
C8_Witness ==
  /\ op = "_exact_search"
  /\ Len(messages) = 2
  /\ IsReturned(messages[2])
  /\ ~Contains(Folded(messages[2].text), Folded(query))
  /\ \E i \in DOMAIN contraction_pairs :
       \E j \in DOMAIN contraction_pairs[i].variants :
         /\ InSeq(" ", contraction_pairs[i].variants[j])
         /\ Contains(Folded(query), contraction_pairs[i].variants[j])
         /\ Contains(Folded(messages[2].text),
                     Replace(Folded(query), contraction_pairs[i].variants[j],
                             contraction_pairs[i].key))

\* C9: for an empty message list search returns an empty list and does not
\* raise, for every query and every configuration; stated for the mode
\* names the claim lists: "exact", "regex", "hybrid" and "semantic".
C9_EmptyListEmptyResult ==
  (op = "search" /\ messages = <<>> /\ mode \in {"exact", "regex", "hybrid", "semantic"})
    => outcome = Returned(<<>>)

\* a regex search over the empty list that ended in OverflowError
C9_Witness ==
  /\ op = "search"
  /\ messages = <<>>
  /\ mode = "regex"
  /\ outcome.raised = "OverflowError"

InputIndex(msg) == CHOOSE i \in DOMAIN messages : messages[i] = msg

\* C11 as claimed: in the list returned by exact, regex and hybrid search,
\* any two results with equal scores appear in the same relative order as
\* their messages appear in the input message list.
C11_TiesInInputOrder ==
  \A i, j \in DOMAIN outcome.results :
    (i < j /\ outcome.results[i].score = outcome.results[j].score)
      => InputIndex(outcome.results[i].msg) < InputIndex(outcome.results[j].msg)

\* the results of both passes of hybrid search in the order it reads them
Discovered == ExactFound \o RegexFound

\* the place at which hybrid search first met the identity
DiscoveryIndex(id) ==
  CHOOSE k \in DOMAIN Discovered :
    /\ IdentityOf(Discovered[k].msg) = id
    /\ \A h \in 1..(k - 1) : IdentityOf(Discovered[h].msg) # id

\* C11 as amended: in the list returned by exact and by regex search (and
\* by search when it runs one of them) any two results with equal scores
\* appear in the order of their messages in the input list; in the list
\* returned by hybrid search two results with equal scores appear in the
\* order in which hybrid search first met their identities: the identities
\* of the exact results in exact-result order, then those of the regex
\* results in regex-result order.
C11_TiesInDiscoveryOrder ==
  /\ (outcome.raised = "none" /\ ~HybridCall) => C11_TiesInInputOrder
  /\ HybridCall =>
       \A i, j \in DOMAIN outcome.results :
         (i < j /\ outcome.results[i].score = outcome.results[j].score)
           => DiscoveryIndex(IdentityOf(outcome.results[i].msg))
                < DiscoveryIndex(IdentityOf(outcome.results[j].msg))

\* hybrid search returned two results of equal score, the message that
\* comes second in the input list first
C11_Witness ==
  /\ HybridCall
  /\ Len(outcome.results) = 2
  /\ outcome.results[1].score = outcome.results[2].score
  /\ InputIndex(outcome.results[2].msg) < InputIndex(outcome.results[1].msg)

\* the text of a message as exact search compares it
FoldedText(msg) == Folded(Get(msg, "text", <<>>))

HasAlternative(msg) ==
  \E k \in DOMAIN Alternatives(Folded(query)) :
    Contains(FoldedText(msg), Alternatives(Folded(query))[k])

\* weight * (0.6 + 0.2 * match_count + 0.2 * position_factor) for one form
FormScore(text, form) ==
  RMul(Get(Get(search_modes, "exact", <<>>), "weight", Rat(1, 1)),
       RAdd(Rat(3 + Count(text, form), 5), RMul(Rat(1, 5), PositionFactor(text, form))))

\* the score of a text by an alternative: it is the first one the text
\* contains, and the score is cut to 0.9 of it exactly when the text does
\* not contain the query itself
ScoredByFirst(score, text, alternatives) ==
  \E k \in DOMAIN alternatives :
    /\ Contains(text, alternatives[k])
    /\ \A h \in 1..(k - 1) : ~Contains(text, alternatives[h])
    /\ score = RMul(FormScore(text, alternatives[k]),
                    IF Contains(text, alternatives[1]) THEN Rat(1, 1) ELSE Rat(9, 10))

\* C12: exact search yields one result for each input message whose text
\* contains some alternative and none for any other message, and scores it
\* by the first alternative the text contains, the lowercased query being
\* the first one: the 0.9 penalty is applied if and only if the text does
\* not contain the query but contains one of its contraction alternatives.
C12_OneResultByFirstAlternative ==
  (op = "_exact_search" /\ outcome.raised = "none") =>
    /\ \A m \in DOMAIN messages :
         Cardinality({k \in DOMAIN outcome.results : outcome.results[k].msg = messages[m]})
           = IF HasAlternative(messages[m]) THEN 1 ELSE 0
    /\ \A k \in DOMAIN outcome.results :
         /\ \E m \in DOMAIN messages : outcome.results[k].msg = messages[m]
         /\ ScoredByFirst(outcome.results[k].score, FoldedText(outcome.results[k].msg),
                          Alternatives(Folded(query)))
    /\ Alternatives(Folded(query))[1] = Folded(query)

\* of two messages one holds no alternative and is left out; the text of
\* the other holds two alternatives but not the query, and is returned once
C12_Witness ==
  /\ op = "_exact_search"
  /\ Len(messages) = 2
  /\ Len(outcome.results) = 1
  /\ ~HasAlternative(messages[1])
  /\ ~Contains(FoldedText(messages[2]), Folded(query))
  /\ \E h, k \in DOMAIN Alternatives(Folded(query)) :
       /\ h < k
       /\ Contains(FoldedText(messages[2]), Alternatives(Folded(query))[h])
       /\ Contains(FoldedText(messages[2]), Alternatives(Folded(query))[k])

====
